---- MODULE Spec2Model ----
(***************************************************************************)
(* A model of the Postgres recorders of the eventsourcing library          *)
(* (src/eventsourcing/postgresrecorders.py) and of the Repository and      *)
(* notification log built on them (src/eventsourcing/application.py).      *)
(*                                                                         *)
(* Each worker is one thread: PostgresDatabase.get_connection gives every  *)
(* thread its own connection, so every worker runs its own transaction.    *)
(* A call of insert_events is a sequence of steps (one INSERT per stored   *)
(* event, one INSERT of the tracking row, then commit or rollback in       *)
(* Transaction.__exit__); steps of different workers interleave.           *)
(*                                                                         *)
(* The database is Postgres at its default isolation (READ COMMITTED):     *)
(*   - rows written by a transaction are visible to others at commit;      *)
(*   - an INSERT whose primary key is already committed fails with a       *)
(*     unique violation (psycopg2.IntegrityError); one whose key is held   *)
(*     by a row of another transaction still in flight waits for it;       *)
(*   - a SERIAL column takes nextval of a sequence when the row is         *)
(*     formed, before the key is checked, and a rollback does not give     *)
(*     the value back.                                                     *)
(***************************************************************************)
EXTENDS Integers, Sequences, FiniteSets, TLC

\* ------------------------------------------------------------------ bounds
\* Number of insert_events / take_snapshot / save calls in one behaviour.
MaxAppends == 2
\* Number of Application.save calls of the writers that load, save and, on
\* a conflict, load again and retry.
MaxSaves == 3
\* Upstream notification ids a tracking row may carry: 1..MaxTrackingId.
MaxTrackingId == 2

\* The threads that append (each has its own connection), the thread that
\* reads aggregates from the repository, and all of them.
Workers == {"w1", "w2"}
Readers == {"r1"}
Clients == Workers \cup Readers
\* originator_id values (stream ids).
Streams == {"s1", "s2"}
\* application_name values of the tracking table (consumer names).
Consumers == {"c1", "c2"}

\* A stored event as handed to insert_events (topic and state are opaque and
\* carried through unchanged; `state` stands for both).
Ev(s, v, p) == [originator_id |-> s, originator_version |-> v, state |-> p]

\* tracking=None
NoTracking == [application_name |-> "None", notification_id |-> 0]
Trackings ==
    {NoTracking} \cup
    {[application_name |-> "c1", notification_id |-> n] : n \in 1..MaxTrackingId}
    \cup {[application_name |-> "c2", notification_id |-> 1]}

\* The batches the recorder-level callers append: a single record, a batch
\* that spans both streams (as Application.save of two aggregates gives) and
\* whose second key is that of the single record, and a batch of the next
\* versions, which shares no key with the other two.
Batches ==
    { <<Ev("s1", 1, "p")>>,
      <<Ev("s2", 1, "p"), Ev("s1", 1, "p")>>,
      <<Ev("s1", 2, "p"), Ev("s2", 2, "p")>> }

VARIABLES
    events,      \* committed rows of the events table
    snapshots,   \* committed rows of the events table of the snapshot recorder
    tracking,    \* committed rows of the tracking table
    rowid_seq,   \* last value handed out by the sequence of the rowid column
    pc,          \* per client: where its current call stands
    txn,         \* per worker: its current (or last) call and open transaction
    result,      \* per client: how its last call ended
    ncalls,      \* number of calls started so far
    burnt,       \* rowid values taken by rows that were rolled back, each
                 \* with the exception that rolled it back
    cstart,      \* the feed's consumer: the start of its next request
    returned,    \* the feed's consumer: the ids it was given, in order
    rget,        \* per client: its current (or last) Repository.get
    section,     \* the notification log: its current (or last) __getitem__
    walk,        \* the sections a reader of the log has followed from "1,n"
    selected,    \* the last select_events call of a reader and its result
    saving,      \* per worker: its Application.save, if one is under way
    notified     \* the calls of Application.notify so far, in order

\* The state of the callers above the recorder.
readerVars ==
    <<cstart, returned, rget, section, walk, selected, saving, notified>>

vars == <<events, snapshots, tracking, rowid_seq, pc, txn, result, ncalls, burnt,
          cstart, returned, rget, section, walk, selected, saving, notified>>

\* ------------------------------------------------------- the two tables
\* The table created without its PRIMARY KEY clause: no insert is refused.
NoPrimaryKey(rows, r) == FALSE

\* The table created with PRIMARY KEY (originator_id).
PrimaryKeyOnIdOnly(rows, r) ==
    \E x \in rows : x.originator_id = r.originator_id

\* PRIMARY KEY (originator_id, originator_version): whether inserting `r`
\* among `rows` violates it.
PrimaryKeyViolation(rows, r) ==
    \E x \in rows :
        /\ x.originator_id = r.originator_id
        /\ x.originator_version = r.originator_version

\* The tracking table created without its PRIMARY KEY clause.
NoTrackingKey(rows, t) == FALSE

\* A key that refuses only a position below one already stored.
TrackingKeyGreaterOnly(rows, t) ==
    \E x \in rows :
        /\ x.application_name = t.application_name
        /\ x.notification_id > t.notification_id

\* PRIMARY KEY (application_name, notification_id) of the tracking table.
TrackingKeyViolation(rows, t) ==
    \E x \in rows :
        /\ x.application_name = t.application_name
        /\ x.notification_id = t.notification_id

\* A rowid computed from the rows committed so far instead of a sequence.
Nextval_CountRows == Cardinality(events) + 1
Nextval_MaxPlusOne ==
    IF events = {} THEN 1
    ELSE 1 + CHOOSE m \in {e.rowid : e \in events} :
                 \A e \in events : e.rowid <= m

\* rowid SERIAL: the value the sequence hands to the next row formed.
Nextval == rowid_seq + 1

\* Both recorders given one and the same table.
Table_Shared(tb) == events \cup snapshots

\* The committed rows of a table of the database.
Table(tb) == IF tb = "events" THEN events ELSE snapshots

\* SELECT MAX(col): no row (NULL) or one value.
SqlMax(S) == IF S = {} THEN {} ELSE {CHOOSE m \in S : \A x \in S : x <= m}

\* Python's `value or 0` on the fetched column (None and 0 both give 0).
Or0(col) == IF col = {} THEN 0 ELSE LET x == CHOOSE y \in col : TRUE
                                    IN IF x = 0 THEN 0 ELSE x

max_tracking_id(application_name) ==
    Or0(SqlMax({t.notification_id :
                  t \in {x \in tracking : x.application_name = application_name}}))

max_notification_id == Or0(SqlMax({e.rowid : e \in events}))

\* ------------------------------------------------------- transactions
\* Optional arguments and values: None is the empty set, a value v is {v}.
None == {}
Some(v) == {v}
The(opt) == CHOOSE v \in opt : TRUE

\* A client's Repository.get before its first.
NoGet ==
    [op |-> "none", aggregate_id |-> "none", version |-> None, gt |-> None,
     domain_events |-> <<>>, aggregate |-> None]

\* The notification log before its first request, as the application
\* constructs it (section_size=10): no section requested, and no Section
\* returned.
NoSection ==
    [pc |-> "idle", section_size |-> 10, section_id |-> <<>>,
     start |-> 0, limit |-> 0, id |-> None, items |-> <<>>, next_id |-> None]

\* No walk through the log is under way.  A walk records how many rows were
\* committed when it began (rows are only ever added, so the store has not
\* changed while that many are committed), the ids it was given so far and
\* the number of sections it asked for.
NoWalk == [active |-> FALSE, committed |-> 0, ids |-> <<>>, requests |-> 0]

\* No select_events call was made by the reader.
NoSelect ==
    [pc |-> "idle", table |-> "none", originator_id |-> "none", gt |-> None,
     lte |-> None, desc |-> FALSE, limit |-> None, stored_events |-> <<>>]

\* No Application.save of the worker is under way.  While one is, `call` is
\* the call of its put and `events` the events it collected.
NoSave == [pc |-> "idle", call |-> 0, events |-> <<>>]

\* A worker's call record while idle before its first call.  The seen_
\* fields record what the caller could observe when the call began: the
\* greatest committed rowid, whether its tracking row was already committed,
\* and max_tracking_id of its consumer name.
NoCall ==
    [call |-> 0, table |-> "events", stored_events |-> <<>>,
     tracking |-> NoTracking, pos |-> 1, rows |-> {}, trows |-> {},
     rowid |-> 0, seen_rowid |-> 0, seen_tracking |-> FALSE, seen_max |-> 0]

\* A unique index that does not see the rows of transactions in flight, so
\* that an INSERT never waits for them.
OthersRows_Unseen(w, tb) == {}

\* Rows written and not yet committed by the transactions of the other
\* workers on table `tb`.
OthersRows(w, tb) ==
    UNION {IF txn[o].table = tb THEN txn[o].rows ELSE {} : o \in Workers \ {w}}

OthersTracking(w) == UNION {txn[o].trows : o \in Workers \ {w}}

\* A commit that replaces the tracking row of the consumer name (an upsert)
\* instead of adding a row.
Transaction_exit_Upsert(w, exc) ==
    IF exc # "None"
    THEN /\ events' = events
         /\ snapshots' = snapshots
         /\ tracking' = tracking
    ELSE /\ events' = IF txn[w].table = "events"
                      THEN events \cup txn[w].rows ELSE events
         /\ snapshots' = IF txn[w].table = "snapshots"
                         THEN snapshots \cup txn[w].rows ELSE snapshots
         /\ tracking' =
              {x \in tracking :
                  \A t \in txn[w].trows : t.application_name # x.application_name}
              \cup txn[w].trows

\* __exit__ that commits whether or not an exception passed through.
Transaction_exit_AlwaysCommits(w, exc) ==
    /\ events' = IF txn[w].table = "events"
                 THEN events \cup txn[w].rows ELSE events
    /\ snapshots' = IF txn[w].table = "snapshots"
                    THEN snapshots \cup txn[w].rows ELSE snapshots
    /\ tracking' = tracking \cup txn[w].trows

\* Transaction.__exit__: roll back if an exception passes through the with
\* block, commit otherwise.  `exc` is "None" or the exception's name.
Transaction_exit(w, exc) ==
    IF exc # "None"
    THEN /\ events' = events
         /\ snapshots' = snapshots
         /\ tracking' = tracking
    ELSE /\ events' = IF txn[w].table = "events"
                      THEN events \cup txn[w].rows ELSE events
         /\ snapshots' = IF txn[w].table = "snapshots"
                         THEN snapshots \cup txn[w].rows ELSE snapshots
         /\ tracking' = tracking \cup txn[w].trows

\* The call of worker w ends: the with block of insert_events is left with
\* exception `exc` ("None": none).  `lost` are sequence values taken by the
\* statement that failed.
EndCall(w, exc, lost) ==
    /\ Transaction_exit(w, exc)
    /\ pc' = [pc EXCEPT ![w] = "idle"]
    /\ result' = [result EXCEPT ![w] = IF exc = "None" THEN "ok" ELSE exc]
    /\ txn' = [txn EXCEPT ![w].rows = {}, ![w].trows = {}, ![w].rowid = 0]
    /\ burnt' = IF exc = "None" THEN burnt
                ELSE burnt \cup
                     {[rowid |-> i, exc |-> exc] :
                        i \in lost \cup
                              {r.rowid : r \in {x \in txn[w].rows : x.rowid # 0}}}

\* _insert_events that ignores the tracking keyword.
AfterRows_IgnoresTracking(t) == "exit"

\* Where a call goes once executemany has inserted every stored event:
\* PostgresProcessRecorder._insert_events goes on to insert the tracking row
\* when one was given; then the with block is left.
AfterRows(t) ==
    IF t.table = "events" /\ t.tracking # NoTracking THEN "tracking" ELSE "exit"

\* The row the next INSERT of worker w's executemany forms, with rowid `id`
\* (0 in the table of the snapshot recorder, which has no such column).
\* `call` is not a column: it records which call wrote the row.
Row(w, id) ==
    LET ev == txn[w].stored_events[txn[w].pos]
    IN  [originator_id |-> ev.originator_id,
         originator_version |-> ev.originator_version,
         state |-> ev.state, rowid |-> id, call |-> txn[w].call]

\* One INSERT of executemany, with the row already formed (rowid `id`).
InsertFormed(w, id) ==
    LET t == txn[w]
        row == Row(w, id)
    IN  IF PrimaryKeyViolation(Table(t.table) \cup t.rows, row)
        THEN \* psycopg2.IntegrityError, raised as self.IntegrityError
             EndCall(w, "IntegrityError", IF id = 0 THEN {} ELSE {id})
        ELSE IF PrimaryKeyViolation(OthersRows(w, t.table), row)
        THEN \* the key is held by a transaction in flight: wait for it
             /\ pc' = [pc EXCEPT ![w] = "blocked"]
             /\ txn' = [txn EXCEPT ![w].rowid = id]
             /\ UNCHANGED <<events, snapshots, tracking, result, burnt>>
        ELSE /\ txn' = [txn EXCEPT ![w].rows = @ \cup {row},
                                   ![w].pos = @ + 1,
                                   ![w].rowid = 0]
             /\ pc' = [pc EXCEPT ![w] =
                         IF t.pos + 1 > Len(t.stored_events)
                         THEN AfterRows(t) ELSE "executemany"]
             /\ UNCHANGED <<events, snapshots, tracking, result, burnt>>

\* c.executemany(statement, params): the next INSERT.  The application
\* recorder's table has the rowid column; the snapshot recorder's has not.
InsertRow(w) ==
    /\ pc[w] = "executemany"
    /\ LET id == IF txn[w].table = "events" THEN Nextval ELSE 0
       IN  /\ rowid_seq' = IF txn[w].table = "events" THEN id ELSE rowid_seq
           /\ InsertFormed(w, id)
    /\ UNCHANGED <<ncalls, readerVars>>

\* An INSERT that waited for another transaction goes on once that
\* transaction has committed (unique violation) or rolled back (inserted).
ResumeInsert(w) ==
    /\ pc[w] = "blocked"
    /\ ~PrimaryKeyViolation(OthersRows(w, txn[w].table), Row(w, txn[w].rowid))
    /\ InsertFormed(w, txn[w].rowid)
    /\ UNCHANGED <<rowid_seq, ncalls, readerVars>>

\* PostgresProcessRecorder._insert_events: INSERT INTO tracking.
InsertTracking(w) ==
    /\ pc[w] \in {"tracking", "tblocked"}
    /\ LET t == txn[w]
           row == [application_name |-> t.tracking.application_name,
                   notification_id |-> t.tracking.notification_id,
                   call |-> t.call]
       IN  /\ ~TrackingKeyViolation(OthersTracking(w), row) \/ pc[w] = "tracking"
           /\ IF TrackingKeyViolation(tracking \cup t.trows, row)
              THEN EndCall(w, "IntegrityError", {})
              ELSE IF TrackingKeyViolation(OthersTracking(w), row)
              THEN /\ pc' = [pc EXCEPT ![w] = "tblocked"]
                   /\ UNCHANGED <<events, snapshots, tracking, txn, result, burnt>>
              ELSE /\ txn' = [txn EXCEPT ![w].trows = @ \cup {row}]
                   /\ pc' = [pc EXCEPT ![w] = "exit"]
                   /\ UNCHANGED <<events, snapshots, tracking, result, burnt>>
    /\ UNCHANGED <<rowid_seq, ncalls, readerVars>>

\* The with block of insert_events is left without an exception: commit.
Commit(w) ==
    /\ pc[w] = "exit"
    /\ EndCall(w, "None", {})
    /\ UNCHANGED <<rowid_seq, ncalls, readerVars>>

\* Any other failure of the database while the transaction is open (the
\* connection drops, a deadlock is detected and this transaction is the
\* victim): psycopg2.OperationalError passes through the with block.
\* _insert_events catches psycopg2.IntegrityError only, so the caller gets
\* the driver's exception, not self.OperationalError of the recorder (the
\* names without a prefix are the recorder's exception classes).
StorageFailure(w) ==
    /\ pc[w] \in {"executemany", "blocked", "tracking", "tblocked", "exit"}
    /\ EndCall(w, "psycopg2.OperationalError",
               IF pc[w] = "blocked" /\ txn[w].rowid # 0 THEN {txn[w].rowid} ELSE {})
    /\ UNCHANGED <<rowid_seq, ncalls, readerVars>>

\* insert_events(stored_events, tracking=...) on the process recorder: the
\* with block is entered.
insert_events(w, stored_events, trk) ==
    /\ pc[w] = "idle"
    /\ ncalls < MaxAppends
    /\ ncalls' = ncalls + 1
    /\ txn' = [txn EXCEPT ![w] =
                 [call |-> ncalls + 1, table |-> "events",
                  stored_events |-> stored_events, tracking |-> trk,
                  pos |-> 1, rows |-> {}, trows |-> {}, rowid |-> 0,
                  seen_rowid |-> max_notification_id,
                  seen_tracking |->
                      \E x \in tracking :
                          /\ x.application_name = trk.application_name
                          /\ x.notification_id = trk.notification_id,
                  seen_max |-> max_tracking_id(trk.application_name)]]
    /\ pc' = [pc EXCEPT ![w] =
                IF Len(stored_events) = 0
                THEN AfterRows([table |-> "events", tracking |-> trk])
                ELSE "executemany"]
    /\ result' = [result EXCEPT ![w] = "none"]
    /\ UNCHANGED <<events, snapshots, tracking, rowid_seq, burnt, readerVars>>

Init ==
    /\ events = {}
    /\ snapshots = {}
    /\ tracking = {}
    /\ rowid_seq = 0
    /\ pc = [c \in Clients |-> "idle"]
    /\ txn = [w \in Workers |-> NoCall]
    /\ result = [c \in Clients |-> "none"]
    /\ ncalls = 0
    /\ burnt = {}
    /\ cstart = 1
    /\ returned = <<>>
    /\ rget = [c \in Clients |-> NoGet]
    /\ section = NoSection
    /\ walk = NoWalk
    /\ selected = NoSelect
    /\ saving = [w \in Workers |-> NoSave]
    /\ notified = <<>>

Next ==
    \/ \E w \in Workers, b \in Batches, t \in Trackings : insert_events(w, b, t)
    \/ \E w \in Workers : InsertRow(w)
    \/ \E w \in Workers : ResumeInsert(w)
    \/ \E w \in Workers : InsertTracking(w)
    \/ \E w \in Workers : Commit(w)
    \/ \E w \in Workers : StorageFailure(w)

Spec == Init /\ [][Next]_vars

\* ------------------------------------------------------- the feed
\* The sizes of the pages the feed's consumer asks for.
Limits == {1, 2}

Min(a, b) == IF a <= b THEN a ELSE b

\* The statement with WHERE rowid > start.
select_notifications_After(start, limit) ==
    LET rows == {e \in events : e.rowid > start}
        n == Min(limit, Cardinality(rows))
    IN  [i \in 1..n |->
            LET r == CHOOSE x \in rows :
                        Cardinality({y \in rows : y.rowid < x.rowid}) = i - 1
            IN  [id |-> r.rowid,
                 originator_id |-> r.originator_id,
                 originator_version |-> r.originator_version,
                 state |-> r.state]]

\* select_notifications(start, limit): SELECT * FROM events WHERE rowid >=
\* start ORDER BY rowid LIMIT limit, one statement that sees the rows
\* committed when it runs; each row becomes a Notification.
select_notifications(start, limit) ==
    LET rows == {e \in events : e.rowid >= start}
        n == Min(limit, Cardinality(rows))
    IN  [i \in 1..n |->
            LET r == CHOOSE x \in rows :
                        Cardinality({y \in rows : y.rowid < x.rowid}) = i - 1
            IN  [id |-> r.rowid,
                 originator_id |-> r.originator_id,
                 originator_version |-> r.originator_version,
                 state |-> r.state]]

\* A consumer that advances through the feed: it asks for the notifications
\* from `cstart` on and next asks from the last id it was given plus one.
ConsumerPull(limit) ==
    /\ LET notifications == select_notifications(cstart, limit)
       IN  /\ returned' = returned \o [i \in 1..Len(notifications) |->
                                         notifications[i].id]
           /\ cstart' = IF Len(notifications) = 0 THEN cstart
                        ELSE notifications[Len(notifications)].id + 1
    /\ UNCHANGED <<events, snapshots, tracking, rowid_seq, pc, txn, result,
                   ncalls, burnt, rget, section, walk, selected, saving,
                   notified>>

NextFeed ==
    \/ Next
    \/ \E limit \in Limits : ConsumerPull(limit)

\* The recorder with appending workers and the feed's consumer.
SpecFeed == Init /\ [][NextFeed]_vars

\* --------------------------------------------------- the notification log
\* A str is the sequence of its characters.
Digit == <<"0", "1", "2", "3", "4", "5", "6", "7", "8", "9">>

\* "{}".format(n) of an int: its decimal digits, after "-" when negative.
RECURSIVE str(_)
str(n) ==
    IF n < 0 THEN <<"-">> \o str(-n)
    ELSE IF n < 10 THEN <<Digit[n + 1]>>
    ELSE str(n \div 10) \o <<Digit[(n % 10) + 1]>>

\* int(s) of a str of decimal digits, with or without a sign.
RECURSIVE int(_)
int(s) ==
    IF s[1] = "-" THEN -int(Tail(s))
    ELSE LET d == CHOOSE v \in 0..9 : Digit[v + 1] = s[Len(s)]
         IN  IF Len(s) = 1 THEN d ELSE 10 * int(SubSeq(s, 1, Len(s) - 1)) + d

\* s.split(sep): the pieces of s between the separators.
RECURSIVE split(_, _)
split(s, sep) ==
    IF \A i \in 1..Len(s) : s[i] # sep THEN <<s>>
    ELSE LET k == CHOOSE i \in 1..Len(s) :
                     /\ s[i] = sep
                     /\ \A j \in 1..(i - 1) : s[j] # sep
         IN  <<SubSeq(s, 1, k - 1)>> \o split(SubSeq(s, k + 1, Len(s)), sep)

\* LocalNotificationLog.format_section_id: "{},{}".format(first, limit).
format_section_id(first, limit) == str(first) \o <<",">> \o str(limit)

Max(a, b) == IF a >= b THEN a ELSE b

\* The first and last id of the sections asked for: one that starts below
\* 1, one within a page, a reversed range, one wider than any page, and the
\* last page of a log of 25.
Requests == {<<0, 1>>, <<2, 3>>, <<3, 2>>, <<1, 12>>, <<21, 30>>}

\* __getitem__, "Interpret the section ID": start = max(1, part1).
getitem_start(part1) == Max(1, part1)

\* The limit without the section size.
getitem_limit_Unclamped(part2, start, section_size) ==
    Max(0, part2 - start + 1)

\* __getitem__: limit = min(max(0, part2 - start + 1), self.section_size).
getitem_limit(part2, start, section_size) ==
    Min(Max(0, part2 - start + 1), section_size)

\* A return_id that takes the ids of a section to be consecutive.
Section_id_Consecutive(notifications) ==
    IF Len(notifications) > 0
    THEN Some(format_section_id(notifications[1].id,
                                notifications[1].id + Len(notifications) - 1))
    ELSE None

\* __getitem__: return_id, from the first and last notification returned.
Section_id(notifications) ==
    IF Len(notifications) > 0
    THEN Some(format_section_id(notifications[1].id,
                                notifications[Len(notifications)].id))
    ELSE None

\* A next_id given whenever the section is not empty.
Section_next_id_WheneverNonEmpty(notifications, limit) ==
    IF Len(notifications) > 0
    THEN LET last_id == notifications[Len(notifications)].id
             next_start == last_id + 1
         IN  Some(format_section_id(next_start, next_start + limit - 1))
    ELSE None

\* A next_id that starts `limit` after the first id of the section.
Section_next_id_FromFirst(notifications, limit) ==
    IF Len(notifications) > 0 /\ Len(notifications) = limit
    THEN LET next_start == notifications[1].id + limit
         IN  Some(format_section_id(next_start, next_start + limit - 1))
    ELSE None

\* __getitem__, "Get next section ID".
Section_next_id(notifications, limit) ==
    IF Len(notifications) > 0 /\ Len(notifications) = limit
    THEN LET last_id == notifications[Len(notifications)].id
             next_start == last_id + 1
         IN  Some(format_section_id(next_start, next_start + limit - 1))
    ELSE None

\* log[section_id] is called.
getitem_called(section_id) ==
    /\ section.pc # "called"
    /\ section' = [NoSection EXCEPT !.pc = "called",
                                    !.section_size = section.section_size,
                                    !.section_id = section_id]
    /\ UNCHANGED <<events, snapshots, tracking, rowid_seq, pc, txn, result,
                   ncalls, burnt, cstart, returned, rget, selected, saving,
                   notified>>

\* A reader asks for any section.
LogRequest(first, last) ==
    /\ getitem_called(format_section_id(first, last))
    /\ walk' = NoWalk

\* A reader begins to walk through the log: it asks for "1,<section_size>".
WalkStart ==
    /\ getitem_called(format_section_id(1, section.section_size))
    /\ walk' = [active |-> TRUE, committed |-> Cardinality(events),
                ids |-> <<>>, requests |-> 0]

\* The reader asks for the section the last one named as next.
WalkNext ==
    /\ walk.active
    /\ section.pc = "returned"
    /\ section.next_id # None
    /\ getitem_called(The(section.next_id))
    /\ walk' = walk

\* LocalNotificationLog.__getitem__: the section id is interpreted, the
\* notifications are selected (one statement) and the Section is returned.
LocalNotificationLog_getitem ==
    /\ section.pc = "called"
    /\ LET parts == split(section.section_id, ",")
           part1 == int(parts[1])
           part2 == int(parts[2])
           start == getitem_start(part1)
           limit == getitem_limit(part2, start, section.section_size)
           notifications == select_notifications(start, limit)
       IN  /\ section' = [section EXCEPT
                            !.pc = "returned",
                            !.start = start,
                            !.limit = limit,
                            !.id = Section_id(notifications),
                            !.items = notifications,
                            !.next_id = Section_next_id(notifications, limit)]
           /\ walk' = IF walk.active
                      THEN [walk EXCEPT
                              !.ids = @ \o [i \in 1..Len(notifications) |->
                                              notifications[i].id],
                              !.requests = @ + 1]
                      ELSE walk
    /\ UNCHANGED <<events, snapshots, tracking, rowid_seq, pc, txn, result,
                   ncalls, burnt, cstart, returned, rget, selected, saving,
                   notified>>

\* An application that has run before: 25 events of one aggregate were
\* saved, one after the other, and nothing failed.
EarlierEvents ==
    {[originator_id |-> "s0", originator_version |-> i, state |-> "p",
      rowid |-> i, call |-> 0] : i \in 1..25}

\* The applications looked at: a new one whose log has sections of 2, and
\* one that holds the earlier events and whose log has sections of 10.
Deployments ==
    {[events |-> {}, section_size |-> 2],
     [events |-> EarlierEvents, section_size |-> 10]}

\* LocalNotificationLog.__init__ sets the section size of the log.
InitLog ==
    /\ \E d \in Deployments :
          /\ events = d.events
          /\ section = [NoSection EXCEPT !.section_size = d.section_size]
    /\ snapshots = {}
    /\ tracking = {}
    /\ rowid_seq = Cardinality(events)
    /\ pc = [c \in Clients |-> "idle"]
    /\ txn = [w \in Workers |-> NoCall]
    /\ result = [c \in Clients |-> "none"]
    /\ ncalls = 0
    /\ burnt = {}
    /\ cstart = 1
    /\ returned = <<>>
    /\ rget = [c \in Clients |-> NoGet]
    /\ walk = NoWalk
    /\ selected = NoSelect
    /\ saving = [w \in Workers |-> NoSave]
    /\ notified = <<>>

\* insert_events of the application recorder takes no tracking.
NextLog ==
    \/ \E w \in Workers, b \in Batches : insert_events(w, b, NoTracking)
    \/ \E w \in Workers : InsertRow(w)
    \/ \E w \in Workers : ResumeInsert(w)
    \/ \E w \in Workers : Commit(w)
    \/ \E w \in Workers : StorageFailure(w)
    \/ \E r \in Requests : LogRequest(r[1], r[2])
    \/ LocalNotificationLog_getitem

\* The application recorder with appending workers and a reader that asks
\* its notification log for sections.
SpecLog == InitLog /\ [][NextLog]_vars

NextWalk ==
    \/ \E w \in Workers, b \in Batches : insert_events(w, b, NoTracking)
    \/ \E w \in Workers : InsertRow(w)
    \/ \E w \in Workers : ResumeInsert(w)
    \/ \E w \in Workers : Commit(w)
    \/ \E w \in Workers : StorageFailure(w)
    \/ WalkStart
    \/ WalkNext
    \/ LocalNotificationLog_getitem

\* The application recorder with appending workers and a reader that walks
\* through its notification log from the first section on.
SpecWalk == InitLog /\ [][NextWalk]_vars

\* ------------------------------------------------------- the repository
\* The aggregate of the repository's callers.
RepoStreams == {"s1"}
\* The payloads of the events one save stores (one event, or three).
Pendings == {<<"b">>, <<"a", "b", "a">>}
\* The version argument of get and take_snapshot: omitted, below the first
\* version, or a version an aggregate may have.
VersionArgs == {None, Some(0), Some(1), Some(2), Some(3)}

\* The statement with originator_version >= gt.
select_events_GtInclusive(tb, originator_id, gt, lte, desc, limit) ==
    LET rows == {e \in Table(tb) :
                    /\ e.originator_id = originator_id
                    /\ gt # None => e.originator_version >= The(gt)
                    /\ lte # None => e.originator_version <= The(lte)}
        n == IF limit # None THEN Min(The(limit), Cardinality(rows))
             ELSE Cardinality(rows)
        Before(x) == IF desc = FALSE
                     THEN {y \in rows : y.originator_version < x.originator_version}
                     ELSE {y \in rows : y.originator_version > x.originator_version}
    IN  [i \in 1..n |-> CHOOSE x \in rows : Cardinality(Before(x)) = i - 1]

\* select_events(originator_id, gt, lte, desc, limit) on the table of a
\* recorder: SELECT * WHERE originator_id = .. [AND originator_version > gt]
\* [AND originator_version <= lte] ORDER BY originator_version ASC|DESC
\* [LIMIT limit].
select_events(tb, originator_id, gt, lte, desc, limit) ==
    LET rows == {e \in Table(tb) :
                    /\ e.originator_id = originator_id
                    /\ gt # None => e.originator_version > The(gt)
                    /\ lte # None => e.originator_version <= The(lte)}
        n == IF limit # None THEN Min(The(limit), Cardinality(rows))
             ELSE Cardinality(rows)
        Before(x) == IF desc = FALSE
                     THEN {y \in rows : y.originator_version < x.originator_version}
                     ELSE {y \in rows : y.originator_version > x.originator_version}
    IN  [i \in 1..n |-> CHOOSE x \in rows : Cardinality(Before(x)) = i - 1]

\* EventStore.get: each stored event of a recorder decoded to a domain
\* event; those of the snapshot store are Snapshots.
decode(tb, rows) ==
    [i \in 1..Len(rows) |->
        [topic |-> IF tb = "snapshots" THEN "Snapshot" ELSE "Event",
         originator_id |-> rows[i].originator_id,
         originator_version |-> rows[i].originator_version,
         state |-> rows[i].state]]

\* domain_event.mutate(aggregate): a Snapshot gives the aggregate it holds;
\* an event applies its payload to the aggregate (None for the first).
mutate(domain_event, aggregate) ==
    IF domain_event.topic = "Snapshot"
    THEN Some([id |-> domain_event.originator_id,
               version |-> domain_event.originator_version,
               state |-> domain_event.state])
    ELSE Some([id |-> domain_event.originator_id,
               version |-> domain_event.originator_version,
               state |-> (IF aggregate = None THEN <<>> ELSE The(aggregate).state)
                         \o domain_event.state])

\* Repository.get, "Project the domain events": the loop over domain_events.
RECURSIVE project(_, _)
project(domain_events, aggregate) ==
    IF domain_events = <<>> THEN aggregate
    ELSE project(Tail(domain_events), mutate(Head(domain_events), aggregate))

\* The snapshot read without lte=version: the latest snapshot of all.
get_snapshots_NoCeiling(aggregate_id, version) ==
    decode("snapshots",
           select_events("snapshots", aggregate_id, None, None, TRUE, Some(1)))

\* Repository.get, "Try to get a snapshot": the latest snapshot at or below
\* `version`.
get_snapshots(aggregate_id, version) ==
    decode("snapshots",
           select_events("snapshots", aggregate_id, None, version, TRUE, Some(1)))

\* Repository.get: gt is the version of the snapshot found, if any.
get_gt(snaps) ==
    IF Len(snaps) > 0 THEN Some(snaps[1].originator_version) ELSE None

\* The event read without the lower bound the snapshot gives.
get_events_IgnoresGt(aggregate_id, gt, version) ==
    decode("events", select_events("events", aggregate_id, None, version, FALSE, None))

\* Repository.get, "Get the domain events".
get_events(aggregate_id, gt, version) ==
    decode("events", select_events("events", aggregate_id, gt, version, FALSE, None))

\* Snapshot.take(aggregate), as the stored event put in the snapshot store.
Snapshot_take(aggregate) ==
    Ev(aggregate.id, aggregate.version, aggregate.state)

\* Repository.get(aggregate_id, version), first half: the snapshot store is
\* read.  `op` is "get" for a caller of get and "take_snapshot" when
\* Application.take_snapshot calls it.
Repository_get(c, op, aggregate_id, version) ==
    /\ pc[c] = "idle"
    /\ LET snaps == get_snapshots(aggregate_id, version)
       IN  rget' = [rget EXCEPT ![c] =
                      [op |-> op, aggregate_id |-> aggregate_id,
                       version |-> version, gt |-> get_gt(snaps),
                       domain_events |-> snaps, aggregate |-> None]]
    /\ pc' = [pc EXCEPT ![c] = "get_events"]
    /\ result' = [result EXCEPT ![c] = "none"]
    /\ UNCHANGED <<events, snapshots, tracking, rowid_seq, burnt,
                   cstart, returned, section, walk, selected, saving,
                   notified>>

get(c, aggregate_id, version) ==
    /\ Repository_get(c, "get", aggregate_id, version)
    /\ UNCHANGED <<ncalls, txn>>

\* factory.aggregate_recorder(purpose): the table of the recorder it gives.
\* The snapshot store is a parallel stream: its recorder has a table of its
\* own, apart from that of the application recorder ("events").
aggregate_recorder(purpose) == purpose

\* Application.take_snapshot(aggregate_id, version): repository.get first.
take_snapshot(w, aggregate_id, version) ==
    /\ ncalls < MaxAppends
    /\ ncalls' = ncalls + 1
    /\ txn' = [txn EXCEPT ![w] =
                 [NoCall EXCEPT !.call = ncalls + 1,
                                !.table = aggregate_recorder("snapshots")]]
    /\ Repository_get(w, "take_snapshot", aggregate_id, version)

\* Repository.get, second half: the event store is read, the domain events
\* are projected, and AggregateNotFound is raised if there was none.
\* take_snapshot then takes the snapshot and enters insert_events of the
\* snapshot recorder (snapshots.put).
Repository_get_events(c) ==
    /\ pc[c] = "get_events"
    /\ LET g == rget[c]
           domain_events ==
               g.domain_events \o get_events(g.aggregate_id, g.gt, g.version)
           aggregate == project(domain_events, None)
       IN  IF g.op = "get"
           THEN /\ rget' = [rget EXCEPT ![c].domain_events = domain_events,
                                        ![c].aggregate = aggregate]
                /\ pc' = [pc EXCEPT ![c] = "idle"]
                /\ result' = [result EXCEPT ![c] =
                                IF aggregate = None THEN "AggregateNotFound"
                                ELSE "ok"]
                /\ txn' = txn
           ELSE /\ rget' = [rget EXCEPT ![c] = NoGet]
                /\ IF aggregate = None
                   THEN /\ pc' = [pc EXCEPT ![c] = "idle"]
                        /\ result' = [result EXCEPT ![c] = "AggregateNotFound"]
                        /\ txn' = txn
                   ELSE /\ pc' = [pc EXCEPT ![c] = "executemany"]
                        /\ result' = result
                        /\ txn' = [txn EXCEPT ![c].stored_events =
                                     <<Snapshot_take(The(aggregate))>>]
    /\ UNCHANGED <<events, snapshots, tracking, rowid_seq, ncalls, burnt,
                   cstart, returned, section, walk, selected, saving,
                   notified>>

\* The committed version of an aggregate a writer finds when it loads it.
CurrentVersion(aggregate_id) ==
    LET vs == {e.originator_version :
                 e \in {x \in events : x.originator_id = aggregate_id}}
    IN  IF vs = {} THEN 0 ELSE CHOOSE m \in vs : \A v \in vs : v <= m

\* Application.save(aggregate): the pending events of an aggregate that was
\* loaded at its current version, with the next versions, are put in the
\* event store (events.put, insert_events of the application recorder).
\* The notify that follows does nothing in this class; its calls are
\* recorded by Application_save and Application_notify below.
save(w, aggregate_id, pending) ==
    /\ pc[w] = "idle"
    /\ ncalls < MaxAppends
    /\ ncalls' = ncalls + 1
    /\ txn' = [txn EXCEPT ![w] =
                 [NoCall EXCEPT
                    !.call = ncalls + 1,
                    !.stored_events =
                        [i \in 1..Len(pending) |->
                            Ev(aggregate_id, CurrentVersion(aggregate_id) + i,
                               <<pending[i]>>)],
                    !.seen_rowid = max_notification_id]]
    /\ pc' = [pc EXCEPT ![w] = "executemany"]
    /\ result' = [result EXCEPT ![w] = "none"]
    /\ UNCHANGED <<events, snapshots, tracking, rowid_seq, burnt, readerVars>>

NextRepo ==
    \/ \E w \in Workers, a \in RepoStreams, p \in Pendings : save(w, a, p)
    \/ \E w \in Workers, a \in RepoStreams, v \in VersionArgs : take_snapshot(w, a, v)
    \/ \E c \in Readers, a \in RepoStreams, v \in VersionArgs : get(c, a, v)
    \/ \E c \in Clients : Repository_get_events(c)
    \/ \E w \in Workers : InsertRow(w)
    \/ \E w \in Workers : ResumeInsert(w)
    \/ \E w \in Workers : Commit(w)
    \/ \E w \in Workers : StorageFailure(w)

\* The application: writers that save events and take snapshots, and readers
\* that get aggregates from the repository.
SpecRepo == Init /\ [][NextRepo]_vars

\* ================================================================ claims
\* What the checks below read of a call: the committed rows and the
\* committed tracking rows it wrote.
CallRows(c) == {e \in events : e.call = c}
CallTracking(c) == {t \in tracking : t.call = c}
Finished(w) == pc[w] = "idle" /\ txn[w].call # 0

\* Every stored event of the call of worker w is a committed row of that call.
AllRowsCommitted(w) ==
    /\ \A i \in 1..Len(txn[w].stored_events) :
          \E e \in CallRows(txn[w].call) :
              /\ e.originator_id = txn[w].stored_events[i].originator_id
              /\ e.originator_version = txn[w].stored_events[i].originator_version
              /\ e.state = txn[w].stored_events[i].state
    /\ Cardinality(CallRows(txn[w].call)) = Len(txn[w].stored_events)

\* The tracking row of the call of worker w, if it gave one, is committed.
TrackingCommitted(w) ==
    CallTracking(txn[w].call) =
        IF txn[w].tracking = NoTracking THEN {}
        ELSE {[application_name |-> txn[w].tracking.application_name,
               notification_id |-> txn[w].tracking.notification_id,
               call |-> txn[w].call]}

\* C1: an append is all-or-nothing.  In every reachable state, for every
\* call of insert_events: if it returned normally, all records of its batch
\* and its tracking row (if any) are committed; while it is in flight and
\* after it was rejected or aborted, none of them is.  And the step that
\* ends a call with an exception leaves the committed records and tracking
\* rows exactly as they were.
C1_AllOrNothing ==
    /\ [](\A w \in Workers :
            txn[w].call # 0 =>
               IF pc[w] = "idle" /\ result[w] = "ok"
               THEN AllRowsCommitted(w) /\ TrackingCommitted(w)
               ELSE CallRows(txn[w].call) = {} /\ CallTracking(txn[w].call) = {})
    /\ [][\A w \in Workers :
            (pc[w] # "idle" /\ pc'[w] = "idle" /\ result'[w] # "ok")
               => (events' = events /\ tracking' = tracking)]_vars

\* C1 witness: one call was rejected after it had inserted a record, and
\* another call committed a batch of two records with its tracking row.
C1_Witness ==
    \E w1, w2 \in Workers :
        /\ Finished(w1) /\ result[w1] = "IntegrityError" /\ txn[w1].pos > 1
        /\ Finished(w2) /\ result[w2] = "ok"
        /\ txn[w2].tracking # NoTracking

\* C2: no two committed records share (originator_id, originator_version);
\* and when two callers have each appended one record with the same key and
\* no tracking, and each call ended in success or in IntegrityError, the key
\* holds exactly one record, at most one of the two succeeded, the one whose
\* record it is succeeded and the other got IntegrityError.
C2_OneWinner ==
    /\ \A e1, e2 \in events :
          (e1.originator_id = e2.originator_id
             /\ e1.originator_version = e2.originator_version) => e1 = e2
    /\ \A w1, w2 \in Workers :
          ( /\ w1 # w2 /\ Finished(w1) /\ Finished(w2)
            /\ Len(txn[w1].stored_events) = 1
            /\ txn[w1].stored_events = txn[w2].stored_events
            /\ txn[w1].tracking = NoTracking /\ txn[w2].tracking = NoTracking
            /\ result[w1] \in {"ok", "IntegrityError"}
            /\ result[w2] \in {"ok", "IntegrityError"} )
          => LET at == {e \in events :
                          /\ e.originator_id = txn[w1].stored_events[1].originator_id
                          /\ e.originator_version =
                                 txn[w1].stored_events[1].originator_version}
             IN  /\ Cardinality(at) = 1
                 /\ ~(result[w1] = "ok" /\ result[w2] = "ok")
                 /\ \A e \in at :
                       /\ e.call = txn[w1].call =>
                             result[w1] = "ok" /\ result[w2] = "IntegrityError"
                       /\ e.call \notin {txn[w1].call, txn[w2].call} =>
                             result[w1] = "IntegrityError"
                             /\ result[w2] = "IntegrityError"

\* C2 witness: two calls that both began on an empty table (so they ran
\* concurrently) appended the same single key; one succeeded, the other got
\* IntegrityError.
C2_Witness ==
    \E w1, w2 \in Workers :
        /\ w1 # w2 /\ Finished(w1) /\ Finished(w2)
        /\ Len(txn[w1].stored_events) = 1
        /\ txn[w1].stored_events = txn[w2].stored_events
        /\ txn[w1].seen_rowid = 0 /\ txn[w2].seen_rowid = 0
        /\ result[w1] = "ok" /\ result[w2] = "IntegrityError"
        /\ \E e \in events : e.call = txn[w1].call

\* C4 as claimed: an append whose tracking id is equal to or below
\* max_tracking_id of its consumer name when the call begins is rejected and
\* commits none of its records.
C4_RejectsEqualOrLower ==
    \A w \in Workers :
        ( /\ Finished(w) /\ txn[w].tracking # NoTracking
          /\ txn[w].tracking.notification_id <= txn[w].seen_max )
        => /\ result[w] \in {"IntegrityError", "psycopg2.OperationalError"}
           /\ CallRows(txn[w].call) = {}

\* C4 amended: an append whose tracking row (consumer name, n), with that
\* very n, is already committed when the call begins is rejected (with
\* IntegrityError, unless a storage failure ends it first) and commits none
\* of its records and no tracking row.
C4_RejectsEqual ==
    \A w \in Workers :
        (Finished(w) /\ txn[w].seen_tracking)
        => /\ result[w] \in {"IntegrityError", "psycopg2.OperationalError"}
           /\ CallRows(txn[w].call) = {}
           /\ CallTracking(txn[w].call) = {}

\* C4 witness: a call whose tracking row was already committed inserted all
\* its records and was then rejected with IntegrityError.
C4_Witness ==
    \E w \in Workers :
        /\ Finished(w) /\ txn[w].seen_tracking
        /\ result[w] = "IntegrityError"
        /\ txn[w].pos > Len(txn[w].stored_events)

\* C5: for every consumer name and notification id at most one tracking row
\* is committed, and of two calls that carried the same tracking position at
\* most one returned normally and at most one has committed records.
C5_ExactlyOnce ==
    /\ \A c \in Consumers, n \in 1..MaxTrackingId :
          Cardinality({t \in tracking :
                          t.application_name = c /\ t.notification_id = n}) <= 1
    /\ \A w1, w2 \in Workers :
          ( /\ w1 # w2 /\ txn[w1].call # 0 /\ txn[w2].call # 0
            /\ txn[w1].tracking # NoTracking
            /\ txn[w1].tracking = txn[w2].tracking )
          => /\ ~(Finished(w1) /\ result[w1] = "ok"
                    /\ Finished(w2) /\ result[w2] = "ok")
             /\ CallRows(txn[w1].call) = {} \/ CallRows(txn[w2].call) = {}

\* C5 witness: two calls with the same tracking position and different
\* records, neither of which saw the tracking row committed when it began
\* (two consumers at work on the same notification at once): one committed,
\* the other was rejected on the tracking row.
C5_Witness ==
    \E w1, w2 \in Workers :
        /\ w1 # w2 /\ Finished(w1) /\ Finished(w2)
        /\ txn[w1].tracking # NoTracking /\ txn[w1].tracking = txn[w2].tracking
        /\ ~txn[w1].seen_tracking /\ ~txn[w2].seen_tracking
        /\ result[w1] = "ok" /\ result[w2] = "IntegrityError"
        /\ txn[w2].pos > Len(txn[w2].stored_events)
        /\ CallRows(txn[w1].call) # {}

\* C6: the tracking row given to an append is committed if and only if all
\* records of that append are committed, and while it is not committed no
\* record of that append is.
C6_CoCommit ==
    \A w \in Workers :
        (txn[w].call # 0 /\ txn[w].tracking # NoTracking
           /\ Len(txn[w].stored_events) > 0)
        => /\ (CallTracking(txn[w].call) # {}) <=> AllRowsCommitted(w)
           /\ CallTracking(txn[w].call) # {} => TrackingCommitted(w)
           /\ CallTracking(txn[w].call) = {} => CallRows(txn[w].call) = {}

\* C6 witness: one call committed its records together with its tracking
\* row, and another met a conflict on a record after it had inserted one and
\* left no tracking row and no record.
C6_Witness ==
    \E w1, w2 \in Workers :
        /\ Finished(w1) /\ result[w1] = "ok" /\ txn[w1].tracking # NoTracking
        /\ CallTracking(txn[w1].call) # {}
        /\ Finished(w2) /\ result[w2] = "IntegrityError"
        /\ txn[w2].tracking # NoTracking
        /\ txn[w2].pos = Len(txn[w2].stored_events) /\ txn[w2].pos > 1
        /\ CallTracking(txn[w2].call) = {}

\* The committed notification ids of a consumer name.
TrackedIds(c) ==
    {t.notification_id : t \in {x \in tracking : x.application_name = c}}

\* C7: max_tracking_id(name) is 0 when no tracking row of that name is
\* committed and the greatest committed notification id of that name
\* otherwise, and no step makes it smaller.
C7_MaxTrackingId ==
    /\ [](\A c \in Consumers :
            IF TrackedIds(c) = {} THEN max_tracking_id(c) = 0
            ELSE /\ max_tracking_id(c) \in TrackedIds(c)
                 /\ \A n \in TrackedIds(c) : n <= max_tracking_id(c))
    /\ [][\A c \in Consumers : max_tracking_id(c)' >= max_tracking_id(c)]_vars

\* C7 witness: a consumer name has two committed positions, the lower one
\* committed by the later call, and max_tracking_id is the greater.
C7_Witness ==
    \E t1, t2 \in tracking :
        /\ t1.application_name = t2.application_name
        /\ t1.notification_id < t2.notification_id
        /\ t1.call > t2.call
        /\ max_tracking_id(t1.application_name) = t2.notification_id
        /\ max_tracking_id("c2") = 0

\* rowid values of rows written and not committed, and of rows formed by an
\* INSERT that waits.
InFlightIds ==
    UNION {{r.rowid : r \in {x \in txn[w].rows : txn[w].table = "events"}}
           \cup (IF pc[w] = "blocked" /\ txn[w].table = "events"
                 THEN {txn[w].rowid} ELSE {}) : w \in Workers}
CommittedIds == {e.rowid : e \in events}
BurntIds == {b.rowid : b \in burnt}

\* C8 as claimed: when no call is in flight (and the last calls ended in
\* success or were rejected with IntegrityError, none by a storage failure),
\* the committed ids are pairwise distinct and are exactly 1..N, N the number
\* of committed records.
C8_Gapless ==
    ( /\ \A w \in Workers : pc[w] = "idle"
      /\ \A b \in burnt : b.exc = "IntegrityError" )
    => /\ \A e1, e2 \in events : e1.rowid = e2.rowid => e1 = e2
       /\ CommittedIds = 1..Cardinality(events)

\* C8 amended: the committed ids are pairwise distinct and lie in 1..S, S
\* the last value the sequence handed out; every value of 1..S is the id of
\* exactly one of: a committed record, a row of a transaction in flight, an
\* insert that was rejected or rolled back (a gap); and a committed record
\* is never removed or changed.
C8_DistinctWithGaps ==
    /\ [](/\ \A e1, e2 \in events : e1.rowid = e2.rowid => e1 = e2
          /\ CommittedIds \cup InFlightIds \cup BurntIds = 1..rowid_seq
          /\ CommittedIds \cap InFlightIds = {}
          /\ CommittedIds \cap BurntIds = {}
          /\ InFlightIds \cap BurntIds = {})
    /\ [][events \subseteq events']_vars

\* C8 witness: no call is in flight and a committed record has an id above
\* a gap left by a rejected or rolled back insert.
C8_Witness ==
    /\ \A w \in Workers : pc[w] = "idle"
    /\ \E e \in events : \E g \in BurntIds : g < e.rowid

\* C9: every id given to a record of an append is greater than every id
\* committed when the append began, and within one append the ids increase
\* in the order of the batch.
C9_IdOrder ==
    \A w \in Workers :
        (txn[w].call # 0 /\ txn[w].table = "events")
        => LET mine == txn[w].rows \cup CallRows(txn[w].call)
               At(r) == {i \in 1..Len(txn[w].stored_events) :
                           /\ txn[w].stored_events[i].originator_id = r.originator_id
                           /\ txn[w].stored_events[i].originator_version
                                  = r.originator_version}
           IN  /\ \A r \in mine : r.rowid > txn[w].seen_rowid
               /\ pc[w] = "blocked" => txn[w].rowid > txn[w].seen_rowid
               /\ \A r1, r2 \in mine :
                     (\E i \in At(r1), j \in At(r2) : i < j)
                        => r1.rowid < r2.rowid

\* C9 witness: a batch of two records committed by a call that began when
\* another append was already committed.
C9_Witness ==
    \E w \in Workers :
        /\ Finished(w) /\ result[w] = "ok"
        /\ Len(txn[w].stored_events) = 2
        /\ txn[w].seen_rowid > 0
        /\ Cardinality(CallRows(txn[w].call)) = 2

\* C10 as claimed: the consumer is given no notification twice, and every
\* committed notification whose id is below the start of its next request
\* has been given to it (an id it passed over is never committed afterwards).
C10_StrictContinuation ==
    /\ \A i, j \in 1..Len(returned) : returned[i] = returned[j] => i = j
    /\ \A e \in events :
          e.rowid < cstart => \E i \in 1..Len(returned) : returned[i] = e.rowid

\* The stored events of an aggregate with version at most `version` (all of
\* them when it is None), and their left fold in ascending version order.
EventsUpTo(aggregate_id, version) ==
    {e \in events :
        /\ e.originator_id = aggregate_id
        /\ version # None => e.originator_version <= The(version)}

RECURSIVE Fold(_)
Fold(S) ==
    IF S = {} THEN <<>>
    ELSE LET last == CHOOSE x \in S :
                        \A y \in S : y.originator_version <= x.originator_version
         IN  Fold(S \ {last}) \o last.state

Folded(aggregate_id, version) ==
    LET S == EventsUpTo(aggregate_id, version)
    IN  IF S = {} THEN None
        ELSE Some([id |-> aggregate_id,
                   version |-> CHOOSE m \in {e.originator_version : e \in S} :
                                  \A e \in S : e.originator_version <= m,
                   state |-> Fold(S)])

SectionReturned == section.pc = "called" /\ section'.pc = "returned"

\* The committed rows a select_notifications from `start` may return.
FromStart(start) == {e \in events : e.rowid >= start}

\* C11: select_notifications(start, limit) returns min(limit, m) of the m
\* committed rows with rowid >= start, those with the smallest ids, in
\* ascending id order, each notification carrying the stream id, version
\* and payload of its row; nothing on an empty store; and no stored state
\* changes.
C11_SelectNotifications ==
    [][SectionReturned =>
        LET ns == section'.items
            M == FromStart(section'.start)
            Ids == {ns[i].id : i \in 1..Len(ns)}
        IN  /\ Len(ns) = Min(section'.limit, Cardinality(M))
            /\ \A i \in 1..Len(ns) :
                  \E e \in M :
                      /\ e.rowid = ns[i].id
                      /\ e.originator_id = ns[i].originator_id
                      /\ e.originator_version = ns[i].originator_version
                      /\ e.state = ns[i].state
            /\ \A i, j \in 1..Len(ns) : i < j => ns[i].id < ns[j].id
            /\ \A e \in M : e.rowid \notin Ids => \A id \in Ids : id < e.rowid
            /\ events = {} => ns = <<>>
            /\ UNCHANGED <<events, snapshots, tracking, rowid_seq>>]_vars

\* C11 witness: a page that starts above the first committed id and is cut
\* by the limit before the last one.
C11_Witness ==
    /\ section.pc = "returned"
    /\ section.limit > 0 /\ Len(section.items) = section.limit
    /\ \E e \in events : e.rowid < section.start
    /\ \E e \in events : e.rowid > section.items[Len(section.items)].id

\* C12: a full page (as many notifications as the limit, more than none)
\* has the id "<first>,<last>" of the ids of its first and last
\* notification, and the next_id "<last+1>,<last+limit>".
C12_FullPage ==
    [][(SectionReturned /\ Len(section'.items) = section'.limit
                        /\ section'.limit > 0) =>
        LET ns == section'.items
            first == ns[1].id
            last == ns[Len(ns)].id
            id == split(The(section'.id), ",")
            next_id == split(The(section'.next_id), ",")
        IN  /\ section'.id # None /\ section'.next_id # None
            /\ Len(id) = 2 /\ int(id[1]) = first /\ int(id[2]) = last
            /\ Len(next_id) = 2
            /\ int(next_id[1]) = last + 1
            /\ int(next_id[2]) = last + section'.limit
            /\ (first = 3 /\ last = 4) => The(section'.id) = <<"3", ",", "4">>
            /\ (last = 10 /\ section'.limit = 10)
                  => The(section'.next_id) = <<"1", "1", ",", "2", "0">>
            /\ (last = 4 /\ section'.limit = 2)
                  => The(section'.next_id) = <<"5", ",", "6">>]_vars

\* C12 witness: a full page whose first id is above the requested start and
\* whose ids are not consecutive, so that its id is not the range asked for.
C12_Witness ==
    /\ section.pc = "returned"
    /\ section.limit > 1 /\ Len(section.items) = section.limit
    /\ section.items[1].id > section.start
    /\ section.items[Len(section.items)].id
          > section.items[1].id + Len(section.items) - 1
    /\ The(section.id) # section.section_id

\* C13: a page with fewer notifications than the limit has no next_id; a
\* page with no notification has neither id nor next_id.
C13_PartialPage ==
    [][SectionReturned =>
        /\ Len(section'.items) < section'.limit => section'.next_id = None
        /\ Len(section'.items) = 0
              => /\ section'.id = None
                 /\ section'.next_id = None
                 /\ section'.items = <<>>
        /\ (events = {} \/ section'.limit = 0
               \/ \A e \in events : e.rowid < section'.start)
              => Len(section'.items) = 0]_vars

\* C13 witness: a page that is neither empty nor full.
C13_Witness ==
    /\ section.pc = "returned"
    /\ Len(section.items) > 0
    /\ Len(section.items) < section.limit
    /\ section.id # None
    /\ section.next_id = None

\* C14: a request "<first>,<last>" is answered from start max(1, first) with
\* limit min(max(0, last - start + 1), section_size): the Section holds at
\* most section_size notifications, none with an id below max(1, first),
\* and none at all, without an error, when last < first.
C14_Clamp ==
    [][SectionReturned =>
        \A r \in Requests :
            section.section_id = format_section_id(r[1], r[2]) =>
                LET floor == IF r[1] < 1 THEN 1 ELSE r[1]
                    span == r[2] - floor + 1
                IN  /\ section'.start = floor
                    /\ section'.limit =
                          (IF span < 0 THEN 0
                           ELSE IF span > section.section_size
                           THEN section.section_size ELSE span)
                    /\ Len(section'.items) <= section.section_size
                    /\ \A i \in 1..Len(section'.items) :
                          section'.items[i].id >= floor
                    /\ r[2] < r[1] => /\ section'.limit = 0
                                      /\ section'.items = <<>>]_vars

\* C14 witness: a range wider than the section size was asked of a store
\* that holds more, and a whole section, no more, was returned.
C14_Witness ==
    /\ section.pc = "returned"
    /\ section.section_id = format_section_id(1, 12)
    /\ Len(section.items) = section.section_size
    /\ Cardinality(events) > section.section_size

\* The ids of the committed notifications, ascending.
RECURSIVE Ascending(_)
Ascending(S) ==
    IF S = {} THEN <<>>
    ELSE LET m == CHOOSE x \in S : \A y \in S : y <= x
         IN  Append(Ascending(S \ {m}), m)

\* C15: a walk from "1,<section_size>" along next_id, over a store that did
\* not change meanwhile, has been given every committed notification once,
\* in ascending id order, when next_id is None, after m \div section_size
\* + 1 requests for m notifications; and with notifications 1..25 and
\* section size 10, "1,10" returns id "1,10" and next_id "11,20", and
\* "21,30" returns id "21,25" and no next_id.
C15_Traversal ==
    /\ []((/\ walk.active /\ section.pc = "returned"
           /\ section.next_id = None
           /\ Cardinality(events) = walk.committed)
          => /\ walk.ids = Ascending({e.rowid : e \in events})
             /\ walk.requests
                   = (Cardinality(events) \div section.section_size) + 1)
    /\ [][(/\ SectionReturned /\ section.section_size = 10
           /\ {e.rowid : e \in events} = 1..25)
          => /\ section.section_id = <<"1", ",", "1", "0">>
                   => /\ section'.id = Some(<<"1", ",", "1", "0">>)
                      /\ section'.next_id = Some(<<"1", "1", ",", "2", "0">>)
             /\ section.section_id = <<"2", "1", ",", "3", "0">>
                   => /\ section'.id = Some(<<"2", "1", ",", "2", "5">>)
                      /\ section'.next_id = None]_vars

\* C15 witness: a walk of at least two requests has ended over a store that
\* did not change and whose ids have a gap.
C15_Witness ==
    /\ walk.active /\ section.pc = "returned" /\ section.next_id = None
    /\ Cardinality(events) = walk.committed
    /\ walk.requests >= 2
    /\ \E i \in 1..rowid_seq : i \notin {e.rowid : e \in events}

\* An application that has run before: an aggregate was saved with three
\* events, and no snapshot of it was taken.
SavedEvents ==
    {[originator_id |-> "s1", originator_version |-> 1, state |-> <<"a">>,
      rowid |-> 1, call |-> 0],
     [originator_id |-> "s1", originator_version |-> 2, state |-> <<"b">>,
      rowid |-> 2, call |-> 0],
     [originator_id |-> "s1", originator_version |-> 3, state |-> <<"a">>,
      rowid |-> 3, call |-> 0]}

InitSaved ==
    /\ events = SavedEvents
    /\ snapshots = {}
    /\ tracking = {}
    /\ rowid_seq = Cardinality(events)
    /\ pc = [c \in Clients |-> "idle"]
    /\ txn = [w \in Workers |-> NoCall]
    /\ result = [c \in Clients |-> "none"]
    /\ ncalls = 0
    /\ burnt = {}
    /\ cstart = 1
    /\ returned = <<>>
    /\ rget = [c \in Clients |-> NoGet]
    /\ section = NoSection
    /\ walk = NoWalk
    /\ selected = NoSelect
    /\ saving = [w \in Workers |-> NoSave]
    /\ notified = <<>>

NextSaved ==
    \/ \E w \in Workers, a \in RepoStreams, p \in Pendings : save(w, a, p)
    \/ \E w \in Workers, a \in RepoStreams, v \in VersionArgs : take_snapshot(w, a, v)
    \/ \E w \in Workers : Repository_get_events(w)
    \/ \E w \in Workers : InsertRow(w)
    \/ \E w \in Workers : ResumeInsert(w)
    \/ \E w \in Workers : Commit(w)
    \/ \E w \in Workers : StorageFailure(w)

\* The writers of the application, which save events and take snapshots, on
\* the store of the saved aggregate.
SpecSaved == InitSaved /\ [][NextSaved]_vars

\* ------------------------------------------------------ Application.save
\* The aggregates given to one save, each with the payloads of its pending
\* events: none; one aggregate; two aggregates, in either order.
SaveArgs ==
    {<<>>,
     <<[id |-> "s1", pending |-> <<"a">>]>>,
     <<[id |-> "s1", pending |-> <<"a", "b">>], [id |-> "s2", pending |-> <<"b">>]>>,
     <<[id |-> "s2", pending |-> <<"a">>], [id |-> "s1", pending |-> <<"b">>]>>}

\* save: "for aggregate in aggregates: events += aggregate._collect_()".
\* Each aggregate was loaded at its current version and its pending events
\* have the versions that follow.
RECURSIVE collect(_)
collect(aggregates) ==
    IF aggregates = <<>> THEN <<>>
    ELSE LET aggregate == Head(aggregates)
         IN  [i \in 1..Len(aggregate.pending) |->
                 Ev(aggregate.id, CurrentVersion(aggregate.id) + i,
                    <<aggregate.pending[i]>>)]
             \o collect(Tail(aggregates))

\* Application.save(*aggregates): the events are collected and put in the
\* event store (one insert_events call of the application recorder).
Application_save(w, aggregates) ==
    /\ pc[w] = "idle"
    /\ saving[w].pc = "idle"
    /\ ncalls < MaxSaves
    /\ ncalls' = ncalls + 1
    /\ LET new_events == collect(aggregates)
       IN  /\ saving' = [saving EXCEPT ![w] =
                           [pc |-> "put", call |-> ncalls + 1,
                            events |-> new_events]]
           /\ txn' = [txn EXCEPT ![w] =
                        [NoCall EXCEPT !.call = ncalls + 1,
                                       !.stored_events = new_events,
                                       !.seen_rowid = max_notification_id]]
           /\ pc' = [pc EXCEPT ![w] =
                       IF Len(new_events) = 0
                       THEN AfterRows([table |-> "events", tracking |-> NoTracking])
                       ELSE "executemany"]
    /\ result' = [result EXCEPT ![w] = "none"]
    /\ UNCHANGED <<events, snapshots, tracking, rowid_seq, burnt, cstart,
                   returned, rget, section, walk, selected, notified>>

\* A put that swallows the exception of the recorder.
put_raises_Swallowed(res) == FALSE

\* self.events.put(events) raises what insert_events raised: the statement
\* after it is not reached.
put_raises(res) == res # "ok"

\* save, after the put: self.notify(events), unless the put raised.  The
\* record of the worker keeps the call and the events of its last save.
Application_notify(w) ==
    /\ saving[w].pc = "put"
    /\ pc[w] = "idle"
    /\ notified' = IF put_raises(result[w]) THEN notified
                   ELSE Append(notified, [call |-> saving[w].call,
                                          new_events |-> saving[w].events])
    /\ saving' = [saving EXCEPT ![w].pc = "idle"]
    /\ UNCHANGED <<events, snapshots, tracking, rowid_seq, pc, txn, result,
                   ncalls, burnt, cstart, returned, rget, section, walk,
                   selected>>

NextSave ==
    \/ \E w \in Workers, aggregates \in SaveArgs : Application_save(w, aggregates)
    \/ \E w \in Workers : InsertRow(w)
    \/ \E w \in Workers : ResumeInsert(w)
    \/ \E w \in Workers : Commit(w)
    \/ \E w \in Workers : StorageFailure(w)
    \/ \E w \in Workers : Application_notify(w)

\* Writers that load aggregates, save their pending events and, after a
\* conflict, load and save again.
SpecSave == Init /\ [][NextSave]_vars

\* ----------------------------------------------------- reads of one stream
\* The keyword arguments of the select_events calls of a reader: every
\* record; the latest at or below 2 (as Repository.get reads a snapshot);
\* the first of those above 1 and up to 3; those, latest first; and an
\* empty range.
Selects ==
    {[gt |-> None,    lte |-> None,    desc |-> FALSE, limit |-> None],
     [gt |-> None,    lte |-> Some(2), desc |-> TRUE,  limit |-> Some(1)],
     [gt |-> Some(1), lte |-> Some(3), desc |-> FALSE, limit |-> Some(1)],
     [gt |-> Some(1), lte |-> Some(3), desc |-> TRUE,  limit |-> None],
     [gt |-> Some(2), lte |-> Some(2), desc |-> FALSE, limit |-> None]}

\* A reader calls select_events of the application recorder.
select_events_called(originator_id, kw) ==
    /\ selected.pc # "called"
    /\ selected' = [pc |-> "called", table |-> "events",
                    originator_id |-> originator_id, gt |-> kw.gt,
                    lte |-> kw.lte, desc |-> kw.desc, limit |-> kw.limit,
                    stored_events |-> <<>>]
    /\ UNCHANGED <<events, snapshots, tracking, rowid_seq, pc, txn, result,
                   ncalls, burnt, cstart, returned, rget, section, walk, saving,
                   notified>>

\* The statement runs and the stored events are returned, each with the
\* originator_id, originator_version, topic and state of its row.
select_events_returns ==
    /\ selected.pc = "called"
    /\ LET rows == select_events(selected.table, selected.originator_id,
                                 selected.gt, selected.lte, selected.desc,
                                 selected.limit)
       IN  selected' = [selected EXCEPT
                          !.pc = "returned",
                          !.stored_events =
                              [i \in 1..Len(rows) |->
                                  Ev(rows[i].originator_id,
                                     rows[i].originator_version,
                                     rows[i].state)]]
    /\ UNCHANGED <<events, snapshots, tracking, rowid_seq, pc, txn, result,
                   ncalls, burnt, cstart, returned, rget, section, walk, saving,
                   notified>>

NextSelect ==
    \/ \E w \in Workers, a \in Streams, p \in Pendings : save(w, a, p)
    \/ \E w \in Workers : InsertRow(w)
    \/ \E w \in Workers : ResumeInsert(w)
    \/ \E w \in Workers : Commit(w)
    \/ \E w \in Workers : StorageFailure(w)
    \/ \E a \in RepoStreams, kw \in Selects : select_events_called(a, kw)
    \/ select_events_returns

\* Writers that save the events of two aggregates, and a reader of the
\* stream of one of them.
SpecSelect == Init /\ [][NextSelect]_vars

\* C17: select_events(originator_id, gt, lte, desc, limit) returns the
\* committed records of that stream, and of no other, with version above gt
\* and at most lte (each bound when given), in ascending version order, or
\* descending when desc, cut to the first `limit` of that order when a limit
\* is given; and it changes no stored state.
C17_SelectEvents ==
    [][(selected.pc = "called" /\ selected'.pc = "returned") =>
        LET q == selected
            rows == selected'.stored_events
            M == {e \in events :
                    /\ e.originator_id = q.originator_id
                    /\ q.gt # None => e.originator_version > The(q.gt)
                    /\ q.lte # None => e.originator_version <= The(q.lte)}
            Versions == {rows[i].originator_version : i \in 1..Len(rows)}
        IN  /\ \A i \in 1..Len(rows) :
                  /\ rows[i].originator_id = q.originator_id
                  /\ \E e \in M :
                        /\ e.originator_version = rows[i].originator_version
                        /\ e.state = rows[i].state
            /\ \A i, j \in 1..Len(rows) :
                  i < j => IF q.desc
                           THEN rows[i].originator_version
                                   > rows[j].originator_version
                           ELSE rows[i].originator_version
                                   < rows[j].originator_version
            /\ Len(rows) = IF q.limit = None THEN Cardinality(M)
                           ELSE IF The(q.limit) < Cardinality(M)
                           THEN The(q.limit) ELSE Cardinality(M)
            /\ \A e \in M :
                  e.originator_version \notin Versions
                  => \A v \in Versions :
                        IF q.desc THEN v > e.originator_version
                        ELSE v < e.originator_version
            /\ UNCHANGED <<events, snapshots, tracking, rowid_seq>>]_vars

\* C17 witness: the latest record at or below a version was asked for, of a
\* stream that has records above and below it, while another stream has
\* records too.
C17_Witness ==
    /\ selected.pc = "returned"
    /\ selected.desc /\ selected.limit = Some(1) /\ selected.lte # None
    /\ Len(selected.stored_events) = 1
    /\ selected.stored_events[1].originator_version = The(selected.lte)
    /\ \E e \in events :
          /\ e.originator_id = selected.originator_id
          /\ e.originator_version > The(selected.lte)
    /\ \E e \in events :
          /\ e.originator_id = selected.originator_id
          /\ e.originator_version < The(selected.lte)
    /\ \E e \in events : e.originator_id # selected.originator_id

\* ------------------------------------------------------------ the repository
\* The stored state of the database.
stored == <<events, snapshots, tracking, rowid_seq>>

\* The events and snapshots stored for an aggregate at or below `version`
\* (all of them when it is None).
RecordsUpTo(aggregate_id, version) ==
    {x \in events \cup snapshots :
        /\ x.originator_id = aggregate_id
        /\ version # None => x.originator_version <= The(version)}

\* C16: Repository.get(id, version) raises AggregateNotFound exactly when
\* no event and no snapshot of id is stored at or below `version` (none at
\* all when it is omitted); otherwise it returns an aggregate; no step of a
\* get changes the stored state, and a take_snapshot whose get failed has
\* stored nothing.
C16_NotFound ==
    /\ [][\A c \in Clients :
            /\ (pc[c] = "get_events" /\ pc'[c] # "get_events")
               => LET g == rget[c]
                      none == RecordsUpTo(g.aggregate_id, g.version) = {}
                  IN  /\ (result'[c] = "AggregateNotFound") <=> none
                      /\ stored' = stored
                      /\ ~none =>
                           IF g.op = "get"
                           THEN /\ result'[c] = "ok"
                                /\ rget'[c].aggregate # None
                           ELSE /\ pc'[c] = "executemany"
                                /\ Len(txn'[c].stored_events) = 1
            /\ (pc[c] = "idle" /\ pc'[c] = "get_events") => stored' = stored
         ]_vars
    /\ [](\A w \in Workers :
            result[w] = "AggregateNotFound"
            => \A x \in events \cup snapshots : x.call # txn[w].call)

\* C16 witness: a get with a version ceiling failed although events of the
\* aggregate are stored, all of them above the ceiling.
C16_Witness ==
    \E c \in Readers :
        /\ pc[c] = "idle" /\ result[c] = "AggregateNotFound"
        /\ rget[c].version # None
        /\ \E e \in events : e.originator_id = rget[c].aggregate_id
        /\ snapshots # {}

\* A step of worker w.
StepOf(w) == pc'[w] # pc[w] \/ txn'[w] # txn[w] \/ result'[w] # result[w]

GetNow(aggregate_id, version) ==
    LET snaps == get_snapshots(aggregate_id, version)
    IN  project(snaps \o get_events(aggregate_id, get_gt(snaps), version), None)

\* A worker whose last call was a take_snapshot that got as far as its put.
TookSnapshot(w) ==
    /\ pc[w] = "idle"
    /\ txn[w].table = "snapshots"
    /\ Len(txn[w].stored_events) = 1

C20_TwoRecorderErrors ==
    \A w \in Workers :
        (Finished(w) /\ result[w] # "ok")
        => /\ result[w] \in {"IntegrityError", "OperationalError"}
           /\ CallRows(txn[w].call) = {}
           /\ CallTracking(txn[w].call) = {}

\* ------------------------------------------------------- save and notify
\* The rows committed by call c are exactly the events evs.
StoredAs(c, evs) ==
    /\ \A i \in 1..Len(evs) :
          \E e \in CallRows(c) :
              /\ e.originator_id = evs[i].originator_id
              /\ e.originator_version = evs[i].originator_version
              /\ e.state = evs[i].state
    /\ Cardinality(CallRows(c)) = Len(evs)

\* The calls of notify made for the save call c.
NotifiedFor(c) == {i \in 1..Len(notified) : notified[i].call = c}

\* C21: Application.save stores the pending events of all given aggregates
\* in one atomic put, so that at every moment all of them are committed or
\* none is; notify is called only once the put has committed, with exactly
\* the events that were stored and at most once per save; a save that has
\* returned was notified exactly once, and a save whose put failed has
\* committed nothing and is never notified.
C21_NotifyAfterAtomicPut ==
    /\ \A w \in Workers :
          saving[w].call # 0
          => /\ \/ CallRows(saving[w].call) = {}
                \/ StoredAs(saving[w].call, saving[w].events)
             /\ Cardinality(NotifiedFor(saving[w].call)) <= 1
             /\ saving[w].pc = "put" => NotifiedFor(saving[w].call) = {}
             /\ (saving[w].pc = "idle" /\ result[w] = "ok")
                => /\ StoredAs(saving[w].call, saving[w].events)
                   /\ \E i \in NotifiedFor(saving[w].call) :
                         notified[i].new_events = saving[w].events
             /\ (saving[w].pc = "idle" /\ result[w] # "ok")
                => /\ CallRows(saving[w].call) = {}
                   /\ NotifiedFor(saving[w].call) = {}
    /\ \A i \in 1..Len(notified) :
          /\ StoredAs(notified[i].call, notified[i].new_events)
          /\ NotifiedFor(notified[i].call) = {i}

\* C21 witness: a save of two aggregates has been notified with its three
\* events, and another save, of two events, has failed with a conflict and
\* has returned without a notification.
C21_Witness ==
    /\ \E i \in 1..Len(notified) :
          /\ Len(notified[i].new_events) = 3
          /\ {notified[i].new_events[k].originator_id : k \in 1..3} = {"s1", "s2"}
    /\ \E w \in Workers :
          /\ saving[w].pc = "idle" /\ saving[w].call # 0
          /\ result[w] = "IntegrityError"
          /\ Len(saving[w].events) = 2
          /\ NotifiedFor(saving[w].call) = {}

\* ------------------------------------------- optimistic concurrency control
\* The committed rows of one stream.
StreamRows(s) == {e \in events : e.originator_id = s}

\* C22: with writers that load a stream, save a batch at the versions that
\* follow the version they loaded and, after a conflict, load and save
\* again, the committed versions of every stream are at every moment
\* exactly 1..n, each once, and a save that ended with an error has no
\* row of its batch committed.
C22_GaplessVersions ==
    /\ \A s \in Streams :
          {e.originator_version : e \in StreamRows(s)}
              = 1..Cardinality(StreamRows(s))
    /\ \A w \in Workers :
          (Finished(w) /\ result[w] # "ok") => CallRows(txn[w].call) = {}

\* C22 witness: one writer saved once; the other writer's save committed
\* nothing, it saved again, and this batch is committed on stream s1 right
\* above the records of the first writer.
C22_Witness ==
    \E w, o \in Workers :
        /\ Finished(o) /\ txn[o].call = 1 /\ result[o] = "ok"
        /\ Finished(w) /\ txn[w].call = 3 /\ result[w] = "ok"
        /\ CallRows(2) = {}
        /\ \E e \in CallRows(1), f \in CallRows(3) :
              /\ e.originator_id = "s1" /\ f.originator_id = "s1"
              /\ f.originator_version = e.originator_version + 1
        /\ \E b \in burnt : b.exc = "IntegrityError"

====
